---------------------------- MODULE Spec2Model ----------------------------
(***************************************************************************)
(* Model of the Multi Cloud Gateway wrapper class MCG                      *)
(* (ocs_ci/ocs/resources/mcg.py) and of the bucket deletion tests          *)
(* (tests/manage/mcg/test_bucket_deletion.py).                             *)
(*                                                                         *)
(* The specifications share the variables:                                 *)
(*   Spec        the gateway, the bucket life cycle and the list/verify    *)
(*               methods of the three transports (S3, OC, CLI);            *)
(*   SpecCli     cli_list_all_bucket_names as a function of the text that  *)
(*               `obc list` prints;                                        *)
(*   SpecReduce  one call of check_data_reduction, RPC by RPC, against a   *)
(*               backend that changes the bucket's metadata by itself;     *)
(*   SpecReduceFair  the same with the calling thread running on.          *)
(* Text is kept as TLA+ strings and taken apart character by character,    *)
(* the way str.split does it.                                              *)
(***************************************************************************)
EXTENDS Integers, Sequences, FiniteSets, TLC

VARIABLES
    buckets,      \* gateway: the buckets that exist, name -> creating transport
    deleted,      \* buckets created and then deleted, name -> deleting transport
    last,         \* the last method call of Spec: op, argument, outcome, result
    cliOut,       \* SpecCli: the text printed by `obc list`
    cliRes,       \* SpecCli: what cli_list_all_bucket_names made of it
    pc,           \* SpecReduce: position inside check_data_reduction
    meta,         \* backend: the bucket's current <<size, size_reduced>>
    srvToken,     \* backend: the token of the create_auth reply
    nb_token,     \* local nb_token (mcg.py:190)
    bucket_data,  \* local of _check_reduction (mcg.py:201)
    sample,       \* loop variables total_size, total_reduced (mcg.py:220)
    elapsed,      \* sampler: seconds since the sampler started
    result,       \* how the call ended
    hist          \* observations of the call: counters and flags

vars == <<buckets, deleted, last, cliOut, cliRes, pc, meta, srvToken,
          nb_token, bucket_data, sample, elapsed, result, hist>>

gwVars == <<buckets, deleted, last>>
cliVars == <<cliOut, cliRes>>
redVars == <<pc, meta, srvToken, nb_token, bucket_data, sample, elapsed,
             result, hist>>

-----------------------------------------------------------------------------
(* Python values: a call returns a value or raises an exception.           *)

Return(v) == [kind |-> "return", value |-> v]
Raise(e) == [kind |-> "raise", value |-> e]
Returned(r) == r.kind = "return"
Raised(r, cls) == r.kind = "raise" /\ r.value.cls = cls

\* An exception object: its class and its message.
Exc(cls, msg) == [cls |-> cls, msg |-> msg]

Range(f) == {f[i] : i \in DOMAIN f}

-----------------------------------------------------------------------------
(* str.split                                                               *)

CharAt(s, i) == SubSeq(s, i, i)

\* The characters str.split() with no separator treats as white space.
IsSpace(c) == c \in {" ", "\t", "\n", "\r", "\f"}

RECURSIVE SplitFrom(_, _, _, _)
\* The pieces of s from position `from` on, scanning at i, cut at every sep.
SplitFrom(s, sep, from, i) ==
    IF i > Len(s) THEN <<SubSeq(s, from, Len(s))>>
    ELSE IF CharAt(s, i) = sep
         THEN <<SubSeq(s, from, i - 1)>> \o SplitFrom(s, sep, i + 1, i + 1)
         ELSE SplitFrom(s, sep, from, i + 1)

\* s.split(sep) for a one-character sep: empty pieces are kept.
StrSplit(s, sep) == SplitFrom(s, sep, 1, 1)

RECURSIVE TokensFrom(_, _, _)
\* from = 0 between tokens, else the position where the current token began.
TokensFrom(s, from, i) ==
    IF i > Len(s)
    THEN IF from = 0 THEN <<>> ELSE <<SubSeq(s, from, Len(s))>>
    ELSE IF IsSpace(CharAt(s, i))
         THEN IF from = 0 THEN TokensFrom(s, 0, i + 1)
              ELSE <<SubSeq(s, from, i - 1)>> \o TokensFrom(s, 0, i + 1)
         ELSE TokensFrom(s, IF from = 0 THEN i ELSE from, i + 1)

\* s.split(): runs of white space separate, no empty token.
StrSplitWs(s) == TokensFrom(s, 0, 1)

\* lst[1:-1]
SliceInner(lst) == SubSeq(lst, 2, Len(lst) - 1)

-----------------------------------------------------------------------------
(* MCG.cli_list_all_bucket_names (mcg.py:91-98) on the text `out` returned *)
(* by run_mcg_cmd('obc list').                                             *)

CliRows(out) == SliceInner(StrSplit(out, "\n"))

\* [row.split()[1] for row in rows]: row.split()[1] raises IndexError on a
\* row of fewer than two tokens.
SecondTokens(rows) ==
    IF \E i \in 1..Len(rows) : Len(StrSplitWs(rows[i])) < 2
    THEN Raise(Exc("IndexError", "list index out of range"))
    ELSE Return([i \in 1..Len(rows) |-> StrSplitWs(rows[i])[2]])

\* A parser that drops two leading lines, [2:-1]: the header and a separator.
cli_list_all_bucket_names_SkipTwo(out) ==
    LET pieces == StrSplit(out, "\n")
    IN  SecondTokens(SubSeq(pieces, 3, Len(pieces) - 1))

cli_list_all_bucket_names(out) == SecondTokens(CliRows(out))

-----------------------------------------------------------------------------
(* SpecCli: the texts `obc list` may print, and the parse of each.         *)

MaxRows == 3

\* The text of the scenario: a header, a separator line, two rows.
ScenarioOut == "NAME  BUCKET\n--- ---\nfoo  mybucket-1\nbar  mybucket-2\n"

RowSet == {"NAME  BUCKET", "--- ---", "foo  mybucket-1", "bar  mybucket-2",
           "", "lonely", " a\tb c "}

RECURSIVE JoinLines(_)
JoinLines(rows) ==
    IF Len(rows) = 0 THEN ""
    ELSE IF Len(rows) = 1 THEN rows[1]
    ELSE rows[1] \o "\n" \o JoinLines(Tail(rows))

CliOutputs ==
    {ScenarioOut} \cup
    {JoinLines(rows) \o tl :
        rows \in UNION {[1..n -> RowSet] : n \in 0..MaxRows},
        tl \in {"", "\n"}}

NotCalled == [kind |-> "none", value |-> <<>>]

InitIdleGateway ==
    /\ buckets = <<>>
    /\ deleted = <<>>
    /\ last = [op |-> "none"]

InitIdleCli ==
    /\ cliOut = ""
    /\ cliRes = NotCalled

InitIdleReduce ==
    /\ pc = "idle"
    /\ meta = <<0, 0>>
    /\ srvToken = "none"
    /\ nb_token = "none"
    /\ bucket_data = 0
    /\ sample = <<>>
    /\ elapsed = 0
    /\ result = NotCalled
    /\ hist = <<>>

InitCli ==
    /\ cliOut \in CliOutputs
    /\ cliRes = NotCalled
    /\ InitIdleGateway
    /\ InitIdleReduce

\* mcg.cli_list_all_bucket_names() with run_mcg_cmd returning cliOut.
CliListCall ==
    /\ cliRes = NotCalled
    /\ cliRes' = cli_list_all_bucket_names(cliOut)
    /\ UNCHANGED <<cliOut, gwVars, redVars>>

NextCli == CliListCall

SpecCli == InitCli /\ [][NextCli]_vars

-----------------------------------------------------------------------------
(* The verify and list methods of MCG, each as a function of what its      *)
(* collaborator (boto3, OCP, run_mcg_cmd) answered.                        *)

\* needle in hay, as Python's `in` on strings
RECURSIVE ContainsFrom(_, _, _)
ContainsFrom(hay, needle, i) ==
    IF i + Len(needle) - 1 > Len(hay) THEN FALSE
    ELSE IF SubSeq(hay, i, i + Len(needle) - 1) = needle THEN TRUE
    ELSE ContainsFrom(hay, needle, i + 1)

StrContains(hay, needle) == ContainsFrom(hay, needle, 1)

\* repr(e) of an exception with one string argument
Repr(e) == e.cls \o "('" \o e.msg \o "')"

\* [bucket.name for bucket in self.s3_resource.buckets.all()]
s3_list_all_bucket_names(all_buckets) ==
    [i \in 1..Len(all_buckets) |-> all_buckets[i].name]

\* a listing that reads the namespace of each claim instead of spec.bucketName
oc_list_all_bucket_names_Namespace(items) ==
    [i \in 1..Len(items) |-> items[i].metadata.namespace]

\* [bucket.get('spec').get('bucketName') for bucket in all_obcs_in_namespace]
oc_list_all_bucket_names(items) ==
    [i \in 1..Len(items) |-> items[i].spec.bucketName]

\* except ClientError: return True
s3_verify_bucket_exists_True(head) ==
    IF Returned(head) THEN Return(TRUE)
    ELSE IF head.value.cls = "ClientError" THEN Return(TRUE)
    ELSE head

\* `head` is what head_bucket(Bucket=bucketname) did: every ClientError is
\* caught and answered False, any other exception passes through.
s3_verify_bucket_exists(head) ==
    IF Returned(head) THEN Return(TRUE)
    ELSE IF head.value.cls = "ClientError" THEN Return(FALSE)
    ELSE head

\* except CommandFailed: return False, whatever the failure
oc_verify_bucket_exists_AnyFailure(got) ==
    IF Returned(got) THEN Return(TRUE)
    ELSE IF got.value.cls = "CommandFailed" THEN Return(FALSE)
    ELSE got

\* `got` is what OCP(kind='obc').get(bucketname) did.
oc_verify_bucket_exists(got) ==
    IF Returned(got) THEN Return(TRUE)
    ELSE IF got.value.cls = "CommandFailed"
         THEN IF StrContains(Repr(got.value), "NotFound")
              THEN Return(FALSE)
              ELSE got
         ELSE got

\* `ran` is what run_mcg_cmd('obc list') did; a failure of the command or of
\* the parse passes through.
cli_verify_bucket_exists(bucketname, ran) ==
    IF ~Returned(ran) THEN ran
    ELSE LET names == cli_list_all_bucket_names(ran.value)
         IN  IF Returned(names)
             THEN Return(bucketname \in Range(names.value))
             ELSE names

-----------------------------------------------------------------------------
(* The gateway and the cluster, as the three transports show them.         *)

\* bucket_factory(3, ...): the buckets a test creates
FactoryAmount == 3

Transports == {"S3", "OC", "CLI"}

BucketName(i) == "mybucket-" \o ToString(i)

BucketNames == {BucketName(i) : i \in 1..FactoryAmount}

Namespace == "openshift-storage"

\* The orders in which a listing may enumerate the set S.
Orders(S) == {f \in [1..Cardinality(S) -> S] : Range(f) = S}

\* s3_resource.buckets.all()
S3Buckets(order) == [i \in 1..Len(order) |-> [name |-> order[i]]]

\* OCP(kind='obc').get().get('items'): a claim is named after its bucket.
ObcItem(name) ==
    [metadata |-> [name |-> name, namespace |-> Namespace],
     spec |-> [bucketName |-> name]]

ObcItems(order) == [i \in 1..Len(order) |-> ObcItem(order[i])]

\* The text of `obc list`: a header line, then one line per claim, each
\* ended by a newline.
RECURSIVE ObcListText(_)
ObcListText(order) ==
    IF Len(order) = 0 THEN "NAME  BUCKET\n"
    ELSE ObcListText(SubSeq(order, 1, Len(order) - 1))
            \o order[Len(order)] \o "  " \o order[Len(order)] \o "\n"

\* head_bucket: the gateway's answer, or a failure on the way.
HeadBucketOutcomes(name) ==
    {IF name \in DOMAIN buckets THEN Return("ok")
     ELSE Raise(Exc("ClientError", "404 Not Found"))}
    \cup {Raise(Exc("ClientError", "403 Forbidden")),
          Raise(Exc("ClientError", "500 Internal Error")),
          Raise(Exc("EndpointConnectionError", "Could not connect"))}

\* The outcomes of head_bucket that are the gateway's own answer.
IsGatewayAnswer(o) ==
    \/ Returned(o)
    \/ o.value \in {Exc("ClientError", "404 Not Found"),
                    Exc("CommandFailed",
                        "Error from server (NotFound): obc not found")}

\* OCP.get(name): the claim, NotFound, or another failure of the command.
ObcGetOutcomes(name) ==
    {IF name \in DOMAIN buckets THEN Return("ok")
     ELSE Raise(Exc("CommandFailed",
                    "Error from server (NotFound): obc not found"))}
    \cup {Raise(Exc("CommandFailed", "Error from server (Forbidden): obc")),
          Raise(Exc("CommandFailed", "Unable to connect to the server")),
          Raise(Exc("TimeoutExpired", "oc get obc"))}

\* run_mcg_cmd('obc list'): the listing in some order, or a failed command.
ObcListOutcomes ==
    {Return(ObcListText(o)) : o \in Orders(DOMAIN buckets)}
    \cup {Raise(Exc("CommandFailed", "noobaa: connection refused"))}

Init ==
    /\ InitIdleGateway
    /\ InitIdleCli
    /\ InitIdleReduce

\* bucket_factory creates the bucket `name` through the transport `via`.
CreateBucket(name, via) ==
    /\ last.op = "none"
    /\ name \notin DOMAIN buckets
    /\ buckets' = [n \in DOMAIN buckets \cup {name} |->
                        IF n = name THEN via ELSE buckets[n]]
    /\ deleted' = [n \in DOMAIN deleted \ {name} |-> deleted[n]]
    /\ UNCHANGED <<last, cliVars, redVars>>

\* bucket.delete(): a bucket object deletes through its own transport.
DeleteBucket(name) ==
    /\ last.op = "none"
    /\ name \in DOMAIN buckets
    /\ buckets' = [n \in DOMAIN buckets \ {name} |-> buckets[n]]
    /\ deleted' = [n \in DOMAIN deleted \cup {name} |->
                        IF n = name THEN buckets[name] ELSE deleted[n]]
    /\ UNCHANGED <<last, cliVars, redVars>>

S3Verify(name) ==
    /\ last.op = "none"
    /\ \E head \in HeadBucketOutcomes(name) :
          last' = [op |-> "s3_verify", arg |-> name, outcome |-> head,
                   result |-> s3_verify_bucket_exists(head)]
    /\ UNCHANGED <<buckets, deleted, cliVars, redVars>>

OcVerify(name) ==
    /\ last.op = "none"
    /\ \E got \in ObcGetOutcomes(name) :
          last' = [op |-> "oc_verify", arg |-> name, outcome |-> got,
                   result |-> oc_verify_bucket_exists(got)]
    /\ UNCHANGED <<buckets, deleted, cliVars, redVars>>

CliVerify(name) ==
    /\ last.op = "none"
    /\ \E ran \in ObcListOutcomes :
          last' = [op |-> "cli_verify", arg |-> name, outcome |-> ran,
                   result |-> cli_verify_bucket_exists(name, ran)]
    /\ UNCHANGED <<buckets, deleted, cliVars, redVars>>

\* The three listings of one gateway state, each in an order of its own.
ListAll ==
    /\ last.op = "none"
    /\ \E o1 \in Orders(DOMAIN buckets), o2 \in Orders(DOMAIN buckets),
          o3 \in Orders(DOMAIN buckets) :
          last' = [op |-> "list_all",
                   s3 |-> Return(s3_list_all_bucket_names(S3Buckets(o1))),
                   oc |-> Return(oc_list_all_bucket_names(ObcItems(o2))),
                   cli |-> cli_list_all_bucket_names(ObcListText(o3))]
    /\ UNCHANGED <<buckets, deleted, cliVars, redVars>>

\* The test has looked at the result of its last call and goes on.
NextStatement ==
    /\ last.op # "none"
    /\ last' = [op |-> "none"]
    /\ UNCHANGED <<buckets, deleted, cliVars, redVars>>

Next ==
    \/ \E name \in BucketNames, via \in Transports : CreateBucket(name, via)
    \/ \E name \in BucketNames : DeleteBucket(name)
    \/ \E name \in BucketNames : S3Verify(name)
    \/ \E name \in BucketNames : OcVerify(name)
    \/ \E name \in BucketNames : CliVerify(name)
    \/ ListAll
    \/ NextStatement

Spec == Init /\ [][Next]_vars

-----------------------------------------------------------------------------
(* MCG.check_data_reduction (mcg.py:165-236), RPC by RPC.                  *)

ReductionTimeout == 120
ReductionInterval == 5
ReductionThreshold == 80000000

\* The read_bucket counter stops counting here.
ReadCountCap == 3

Tokens == {"token-a", "token-b"}

\* The metadata <<size, size_reduced>> the backend may report for the bucket:
\* differences of 10,000,000, of exactly 80,000,000, of 80,000,001, and a
\* smaller bucket whose difference is 10,000,000 again.
MetaStates == {<<100000000, 90000000>>, <<100000000, 20000000>>,
               <<100000000, 19999999>>, <<20000000, 10000000>>}

\* if total_size - total_reduced > 80000000
Sufficient(total_size, total_reduced) ==
    total_size - total_reduced > ReductionThreshold

NoneGet == Exc("AttributeError", "'NoneType' object has no attribute 'get'")

\* requests.post(...) then resp.json().get('reply').get('token'): `post` is
\* what requests.post did, a body or an exception of the transport.
AuthReplyToken(post) ==
    IF ~Returned(post) THEN post
    ELSE IF "reply" \notin DOMAIN post.value THEN Raise(NoneGet)
    ELSE IF "token" \notin DOMAIN post.value.reply THEN Return("None")
    ELSE Return(post.value.reply.token)

\* resp.json().get('reply').get('data').get(field)
ReadBucketField(post, field) ==
    IF ~Returned(post) THEN post
    ELSE IF "reply" \notin DOMAIN post.value THEN Raise(NoneGet)
    ELSE IF "data" \notin DOMAIN post.value.reply THEN Raise(NoneGet)
    ELSE IF field \notin DOMAIN post.value.reply.data THEN Return("None")
    ELSE Return(post.value.reply.data[field])

\* a payload that leaves the token out
ReadBucketPayload_NoToken(bucketname, token) ==
    [api |-> "bucket_api", method |-> "read_bucket",
     params |-> [name |-> bucketname], auth_token |-> "None"]

\* the payload of both RPCs of _check_reduction
ReadBucketPayload(bucketname, token) ==
    [api |-> "bucket_api", method |-> "read_bucket",
     params |-> [name |-> bucketname], auth_token |-> token]

\* TimeoutSampler(5, 120, ...): the arguments in the wrong order
Sampler_Swapped ==
    [timeout |-> ReductionInterval, sleep |-> ReductionTimeout]

\* TimeoutSampler(120, 5, _check_reduction)
Sampler == [timeout |-> ReductionTimeout, sleep |-> ReductionInterval]

\* except TimeoutExpiredError: the message reads total_size and
\* total_reduced, which are bound only once the loop has had a sample.
OnTimeoutExpired(loopVars) ==
    IF loopVars = <<>>
    THEN Raise(Exc("UnboundLocalError",
                   "local variable 'total_size' referenced before assignment"))
    ELSE Return(FALSE)

\* What the management endpoint does with create_auth.
CreateAuthOutcomes ==
    {Return([reply |-> [token |-> t]]) : t \in Tokens}
    \cup {Return([error |-> [rpc_code |-> "UNAUTHORIZED"]]),
          Raise(Exc("ConnectionError", "mgmt endpoint unreachable"))}

\* What the management endpoint does with read_bucket: the metadata of the
\* moment for the session token, an error body or a failed request.
ReadBucketOutcomes(payload) ==
    (IF payload.auth_token = srvToken
     THEN {Return([reply |-> [data |-> [size |-> meta[1],
                                         size_reduced |-> meta[2]]]])}
     ELSE {})
    \cup {Return([error |-> [rpc_code |-> "UNAUTHORIZED"]]),
          Raise(Exc("ConnectionError", "mgmt endpoint unreachable"))}

Min(a, b) == IF a < b THEN a ELSE b

\* Observer: the pair differs by more than 80,000,000.
Exceeds(pair) == pair[1] - pair[2] >= 80000001

NoHist ==
    [auths |-> 0, authOk |-> FALSE, reads |-> 0, badToken |-> FALSE,
     calls |-> 0, satSample |-> FALSE, calledAfterSat |-> FALSE,
     satState |-> FALSE, timedOut |-> FALSE]

InitReduce ==
    /\ InitIdleGateway
    /\ InitIdleCli
    /\ pc = "start"
    /\ meta \in MetaStates
    /\ srvToken = "none"
    /\ nb_token = "none"
    /\ bucket_data = 0
    /\ sample = <<>>
    /\ elapsed = 0
    /\ result = NotCalled
    /\ hist = [NoHist EXCEPT !.satState = Exceeds(meta)]

\* mcg.py:175-190: the create_auth RPC and the token taken from its reply.
\* The sampler is built next; its first call comes at once or after one
\* interval.
CreateAuth ==
    /\ pc = "start"
    /\ \E post \in CreateAuthOutcomes :
        LET tok == AuthReplyToken(post)
        IN  /\ hist' = [hist EXCEPT !.auths = @ + 1, !.authOk = Returned(tok)]
            /\ IF Returned(tok)
               THEN /\ nb_token' = tok.value
                    /\ srvToken' = post.value.reply.token
                    /\ pc' = "sampler"
                    /\ elapsed' \in {0, Sampler.sleep}
                    /\ UNCHANGED result
               ELSE /\ result' = tok
                    /\ pc' = "done"
                    /\ UNCHANGED <<nb_token, srvToken, elapsed>>
    /\ UNCHANGED <<meta, bucket_data, sample, gwVars, cliVars>>

\* The sampler finds its time used up and raises TimeoutExpiredError, which
\* check_data_reduction catches (mcg.py:232-236).
SamplerTimeout ==
    /\ pc = "sampler"
    /\ elapsed > Sampler.timeout
    /\ result' = OnTimeoutExpired(sample)
    /\ pc' = "done"
    /\ hist' = [hist EXCEPT !.timedOut = TRUE]
    /\ UNCHANGED <<meta, srvToken, nb_token, bucket_data, sample, elapsed,
                   gwVars, cliVars>>

\* The sampler calls _check_reduction.
SamplerInvoke ==
    /\ pc = "sampler"
    /\ elapsed <= Sampler.timeout
    /\ pc' = "read_size"
    /\ hist' = [hist EXCEPT !.calls = @ + 1,
                            !.calledAfterSat = @ \/ hist.satSample]
    /\ UNCHANGED <<meta, srvToken, nb_token, bucket_data, sample, elapsed,
                   result, gwVars, cliVars>>

\* _check_reduction raised `exc`: the sampler lets it through to the caller
\* of check_data_reduction, or logs it and tries again after the interval.
CheckRaised(exc) ==
    \/ /\ result' = exc
       /\ pc' = "done"
       /\ UNCHANGED elapsed
    \/ /\ pc' = "sampler"
       /\ elapsed' = elapsed + Sampler.sleep
       /\ UNCHANGED result

\* Observer: one more read_bucket RPC was sent, with this payload.
NoteRead(payload) ==
    [hist EXCEPT !.reads = Min(@ + 1, ReadCountCap),
                 !.badToken = @ \/ payload.auth_token # srvToken]

\* mcg.py:193-201: the first read_bucket RPC, for 'size'.
ReadSize ==
    /\ pc = "read_size"
    /\ LET payload == ReadBucketPayload("bucket", nb_token)
       IN  /\ hist' = NoteRead(payload)
           /\ \E post \in ReadBucketOutcomes(payload) :
                LET size == ReadBucketField(post, "size")
                IN  IF Returned(size)
                    THEN /\ bucket_data' = size.value
                         /\ pc' = "read_reduced"
                         /\ UNCHANGED <<elapsed, result>>
                    ELSE /\ CheckRaised(size)
                         /\ UNCHANGED bucket_data
    /\ UNCHANGED <<meta, srvToken, nb_token, sample, gwVars, cliVars>>

\* mcg.py:220-231: the body of the loop for one sample; after an
\* insufficient sample the sampler sleeps for the interval.
LoopBody(total_size, total_reduced) ==
    IF Sufficient(total_size, total_reduced)
    THEN /\ result' = Return(TRUE)
         /\ pc' = "done"
         /\ UNCHANGED elapsed
    ELSE /\ pc' = "sampler"
         /\ elapsed' = elapsed + Sampler.sleep
         /\ UNCHANGED result

\* mcg.py:203-217: the second read_bucket RPC, for 'size_reduced'; the pair
\* goes back to the sampler, which yields it to the loop.
ReadReduced ==
    /\ pc = "read_reduced"
    /\ LET payload == ReadBucketPayload("bucket", nb_token)
       IN  \E post \in ReadBucketOutcomes(payload) :
                LET reduced == ReadBucketField(post, "size_reduced")
                IN  IF Returned(reduced)
                    THEN /\ sample' = <<bucket_data, reduced.value>>
                         /\ hist' = [NoteRead(payload) EXCEPT !.satSample =
                                        @ \/ Exceeds(sample')]
                         /\ LoopBody(bucket_data, reduced.value)
                    ELSE /\ hist' = NoteRead(payload)
                         /\ CheckRaised(reduced)
                         /\ UNCHANGED sample
    /\ UNCHANGED <<meta, srvToken, nb_token, bucket_data, gwVars, cliVars>>

\* The backend changes the bucket's metadata (objects written or deleted,
\* background deduplication and compression) while the call is under way.
BackendChange ==
    /\ pc \in {"sampler", "read_size", "read_reduced"}
    /\ \E m \in MetaStates \ {meta} :
        /\ meta' = m
        /\ hist' = [hist EXCEPT !.satState = @ \/ Exceeds(m)]
    /\ UNCHANGED <<pc, srvToken, nb_token, bucket_data, sample, elapsed,
                   result, gwVars, cliVars>>

\* The steps of the call itself.
CallStep ==
    \/ CreateAuth
    \/ SamplerTimeout
    \/ SamplerInvoke
    \/ ReadSize
    \/ ReadReduced

NextReduce ==
    \/ CallStep
    \/ BackendChange

SpecReduce == InitReduce /\ [][NextReduce]_vars

\* The calling thread runs on: every RPC ends with a reply or an error, and
\* a sleep ends.
SpecReduceFair == SpecReduce /\ WF_vars(CallStep)

-----------------------------------------------------------------------------
(* Claims about the verify and list methods (specification Spec).          *)

IsTrue(r) == Returned(r) /\ r.value = TRUE
IsFalse(r) == Returned(r) /\ r.value = FALSE

IsVerify == last.op \in {"s3_verify", "oc_verify", "cli_verify"}

\* The transport answered the probe: the gateway said found or not found;
\* the request did not fail on the way.
Answered ==
    IF last.op = "cli_verify" THEN Returned(last.outcome)
    ELSE IsGatewayAnswer(last.outcome)

\* C1: a bucket that was created and then deleted, through whichever
\* transport, is never reported as existing by s3_verify_bucket_exists,
\* oc_verify_bucket_exists or cli_verify_bucket_exists, and each of them
\* returns False for it whenever its transport answered the probe.
C1_DeletedBucketIsGone ==
    (IsVerify /\ last.arg \in DOMAIN deleted) =>
        /\ ~IsTrue(last.result)
        /\ Answered => IsFalse(last.result)

\* A bucket deleted through S3 was checked through the resource API.
C1_Witness ==
    /\ last.op = "oc_verify"
    /\ last.arg \in DOMAIN deleted
    /\ deleted[last.arg] = "S3"
    /\ IsFalse(last.result)

\* The failure of the collaborator reached the caller unchanged.
Propagated ==
    /\ ~Returned(last.outcome)
    /\ ~Returned(last.result)
    /\ last.result.value = last.outcome.value

\* The error of head_bucket is the protocol's "not found".
IsS3NotFound(o) ==
    /\ ~Returned(o)
    /\ o.value.cls = "ClientError"
    /\ \E i \in 1..(Len(o.value.msg) - 2) :
            SubSeq(o.value.msg, i, i + 2) = "404"

\* C2 (as claimed): s3_verify_bucket_exists returns True when head_bucket
\* succeeds, returns False only for a "not found" protocol error, and lets
\* every other protocol error reach the caller.
C2_Original ==
    last.op = "s3_verify" =>
        /\ Returned(last.outcome) => IsTrue(last.result)
        /\ IsFalse(last.result) => IsS3NotFound(last.outcome)
        /\ (~Returned(last.outcome) /\ ~IsS3NotFound(last.outcome)) =>
                Propagated

\* The failure carries the text NotFound.
CarriesNotFound(o) ==
    /\ ~Returned(o)
    /\ \E i \in 1..(Len(o.value.msg) - 7) :
            SubSeq(o.value.msg, i, i + 7) = "NotFound"

\* C3: oc_verify_bucket_exists returns True when the claim is fetched,
\* False when the fetch fails with a CommandFailed that carries NotFound,
\* and raises the CommandFailed again when it does not: False is returned
\* for no other failure, and NotFound never raises.
C3_OcVerify ==
    last.op = "oc_verify" =>
        /\ Returned(last.outcome) => IsTrue(last.result)
        /\ (Raised(last.outcome, "CommandFailed")
                /\ CarriesNotFound(last.outcome)) => IsFalse(last.result)
        /\ (Raised(last.outcome, "CommandFailed")
                /\ ~CarriesNotFound(last.outcome)) => Propagated
        /\ IsFalse(last.result) =>
                (Raised(last.outcome, "CommandFailed")
                    /\ CarriesNotFound(last.outcome))
        /\ ~Returned(last.result) => ~CarriesNotFound(last.outcome)

\* A bucket that does not exist was looked up and the answer was False.
C3_Witness ==
    /\ last.op = "oc_verify"
    /\ last.arg \notin DOMAIN buckets
    /\ CarriesNotFound(last.outcome)
    /\ IsFalse(last.result)

-----------------------------------------------------------------------------
(* Claims about check_data_reduction (specifications SpecReduce and        *)
(* SpecReduceFair).                                                        *)

Done == pc = "done"

\* The bounds floor(T/I) and ceil(T/I) + 1 for the sampler of the call.
MinCalls == Sampler.timeout \div Sampler.sleep
MaxCalls == (Sampler.timeout + Sampler.sleep - 1) \div Sampler.sleep + 1

\* C4 (as claimed): check_data_reduction returns True exactly when a sample
\* yielded during the call has size - size_reduced > 80,000,000 (a
\* difference of exactly 80,000,000 does not count), it polls no further
\* after such a sample, and it returns False when the time runs out with no
\* such sample.
C4_Original ==
    (Done /\ hist.authOk) =>
        /\ IsTrue(result) <=> hist.satSample
        /\ ~hist.calledAfterSat
        /\ (hist.timedOut /\ ~hist.satSample) => IsFalse(result)

\* C5 (as claimed): whenever the sampler signals TimeoutExpired, the call
\* ends by returning False and no error reaches the caller, also when no
\* sample had been yielded yet.
C5_Original ==
    hist.timedOut => (Done /\ IsFalse(result))

C9_AuthOnceThenReads ==
    /\ hist.auths = (IF pc = "start" THEN 0 ELSE 1)
    /\ hist.reads > 0 => (hist.auths = 1 /\ hist.authOk)
    /\ ~hist.badToken
    /\ hist.authOk => nb_token = srvToken
    /\ (hist.auths = 1 /\ ~hist.authOk) =>
            (Done /\ ~Returned(result) /\ result.kind = "raise"
                /\ hist.reads = 0)

\* Several polls were made with the token of the one create_auth.
C9_Witness ==
    /\ hist.auths = 1
    /\ hist.reads = ReadCountCap
    /\ hist.calls >= 2
    /\ nb_token \in Tokens

\* C10 (as claimed): check_data_reduction returns True only if the bucket
\* was, at some moment of the call, in a state whose size - size_reduced
\* exceeded 80,000,000, also when the backend changes the metadata between
\* the two RPCs of a poll.
C10_Original ==
    IsTrue(result) => hist.satState

-----------------------------------------------------------------------------
(* C6, stated on the text itself: lines are what lies between newline      *)
(* characters, tokens are maximal runs of characters that are not white    *)
(* space.                                                                  *)

NewlinePos(s) == {i \in 1..Len(s) : CharAt(s, i) = "\n"}

NumLines(s) == Cardinality(NewlinePos(s)) + 1

\* The position of the k-th newline of s; 0 for k = 0, Len(s)+1 past the last.
KthNewline(s, k) ==
    IF k = 0 THEN 0
    ELSE IF k > Cardinality(NewlinePos(s)) THEN Len(s) + 1
    ELSE CHOOSE p \in NewlinePos(s) :
            Cardinality({q \in NewlinePos(s) : q < p}) = k - 1

LineOf(s, k) == SubSeq(s, KthNewline(s, k - 1) + 1, KthNewline(s, k) - 1)

TokenStarts(s) ==
    {i \in 1..Len(s) :
        /\ ~IsSpace(CharAt(s, i))
        /\ (i = 1 \/ IsSpace(CharAt(s, i - 1)))}

TokenEnds(s) ==
    {i \in 1..Len(s) :
        /\ ~IsSpace(CharAt(s, i))
        /\ (i = Len(s) \/ IsSpace(CharAt(s, i + 1)))}

\* The second token of a line that has at least two.
SecondTokenOf(s) ==
    LET b == CHOOSE i \in TokenStarts(s) :
                Cardinality({j \in TokenStarts(s) : j < i}) = 1
        e == CHOOSE i \in TokenEnds(s) :
                i >= b /\ \A j \in TokenEnds(s) : j >= b => i <= j
    IN  SubSeq(s, b, e)

\* The lines kept: all but the first and the last piece of the text.
KeptLines(s) == 2..(NumLines(s) - 1)

\* The rule of the parse: the second token of every kept line, in order,
\* and IndexError when a kept line has fewer than two tokens.
CliRule ==
    cliRes # NotCalled =>
        LET kept == KeptLines(cliOut)
        IN  IF \E k \in kept : Cardinality(TokenStarts(LineOf(cliOut, k))) < 2
            THEN Raised(cliRes, "IndexError")
            ELSE /\ Returned(cliRes)
                 /\ Len(cliRes.value) = Cardinality(kept)
                 /\ \A k \in kept :
                        cliRes.value[k - 1] = SecondTokenOf(LineOf(cliOut, k))

=============================================================================
